---------------------------- MODULE Spec2Model ----------------------------
(***************************************************************************)
(* SyncAsyncStream: the single-producer / single-consumer byte ring that   *)
(* ffmpeg.wasm shares between the main thread and the worker.              *)
(*                                                                         *)
(* Two implementations live in the repository and both are modelled:       *)
(*   impl = "bulk"  packages/ffmpeg/src/sync.ts  (#writeBytes/#readBytes)   *)
(*   impl = "byte"  unnamed/part_000             (#writeByte, one byte at   *)
(*                  a time, reset on the first write after close)          *)
(*                                                                         *)
(* Every Atomics access of the other side's words is one step of its own;  *)
(* a load of a word only the running side stores is folded into the next   *)
(* step.  write/writeSync and read/readSync run the same steps: they       *)
(* differ only in Atomics.waitAsync against Atomics.wait, both of which    *)
(* are the Wait / parked / Timeout steps below.                            *)
(*                                                                         *)
(* The bytes a producer passes are numbered 1, 2, 3, ... in the order they *)
(* are passed, so that loss, duplication and reordering are visible.       *)
(***************************************************************************)
EXTENDS Integers, Sequences, FiniteSets, TLC

VARIABLES
    impl,            \* which implementation this channel object runs
    ch,              \* the channel: shared region, both sides' locals
    fresh,           \* a channel constructed at the last reset() and driven
                     \* by the same calls under the same schedule
    passed,          \* number of bytes passed to write/writeSync so far
    base,            \* value of passed at the last reset()
    closeCalled,     \* close() was called since construction / reset()
    writeAfterClose, \* a write was called after close() with no reset() between
    ff,              \* the FFmpeg object of classes.ts and its web worker
    made             \* a call of the SyncAsyncStream constructor and what it made

vars == <<impl, ch, fresh, passed, base, closeCalled, writeAfterClose, ff, made>>

\* ------------------------------------------------------------------ bounds

\* sizeInBytes given to the constructor: the length of #data
Capacity == 3
\* total number of bytes the producer passes to write in one run
MaxBytes == 4
\* largest source.length of one write call: more than fits at once
MaxChunk == Capacity
\* target.length of the consumer's buffer
TargetLen == 2
\* number of requests the FFmpeg object sends to its worker in one run
MaxRequests == 3
\* largest size, and largest byteLength of a buffer, given to the constructor
MaxSize == 40

Impls == {"bulk", "byte"}
Slots == 0 .. (Capacity - 1)

\* ------------------------------------------------------------- pure helpers

Min(a, b) == IF a < b THEN a ELSE b

ZeroData == [i \in Slots |-> 0]

ZeroTarget == [i \in 0 .. (TargetLen - 1) |-> 0]

\* source.subarray(from): the elements after the first `from`
Subarray(s, from) == SubSeq(s, from + 1, Len(s))

\* history kept while no producer call is in flight
NoCall == [ writePosition |-> 0, state |-> 0 ]

\* The state after construction from a size: new SharedArrayBuffer is zeroed.
Fresh ==
    [ readPosition         |-> 0,
      writePosition        |-> 0,
      state                |-> 0,
      data                 |-> ZeroData,
      \* producer
      wpc                  |-> "idle",
      source               |-> << >>,
      totalBytesWritten    |-> 0,
      currentWritePosition |-> 0,
      checkedReadPosition  |-> 0,
      bytesToWrite         |-> 0,
      nextWritePosition    |-> 0,
      wret                 |-> 0,
      atCall               |-> NoCall,
      \* consumer
      rpc                  |-> "idle",
      target               |-> ZeroTarget,
      offset               |-> 0,
      limit                |-> 0,
      bytesRead            |-> 0,
      checkedWritePosition |-> 0,
      currentReadPosition  |-> 0,
      bytesToRead          |-> 0,
      rret                 |-> 0,
      \* history
      copiedIn             |-> 0,
      delivered            |-> << >> ]

\* Atomics.or on the two bits of the state word
BitOr(a, b) ==
    (IF a % 2 = 1 \/ b % 2 = 1 THEN 1 ELSE 0)
        + (IF (a \div 2) % 2 = 1 \/ (b \div 2) % 2 = 1 THEN 2 ELSE 0)

\* TypedArray.prototype.set(bytes, at) on the data region
DataSet(data, bytes, at) ==
    [i \in Slots |->
        IF at <= i /\ i < at + Len(bytes) THEN bytes[i - at + 1] ELSE data[i]]

\* data.subarray(from, from + n) as a sequence
DataSubarray(data, from, n) ==
    [k \in 1 .. n |-> data[from + k - 1]]

\* target.set(bytes, at)
TargetSet(target, bytes, at) ==
    [i \in DOMAIN target |->
        IF at <= i /\ i < at + Len(bytes) THEN bytes[i - at + 1] ELSE target[i]]

\* ------------------------------------------------------- #writeBytes (bulk)

\* the "Full" test left out
IsFullNever(wp, rp) == FALSE

\* the "Full" test one slot early
IsFullEarly(wp, rp) == (wp + 1) % Capacity = rp \/ (wp + 2) % Capacity = rp

\* "Full": (currentWritePosition + 1) % data.length == currentReadPosition
IsFull(wp, rp) == (wp + 1) % Capacity = rp

\* the free span counted around the end of the array
ContiguousSpaceAround(wp, rp) ==
    IF rp > wp THEN rp - wp ELSE Capacity - wp + rp

ContiguousSpace(wp, rp) ==
    IF rp > wp THEN rp - wp ELSE Capacity - wp

\* "Never overwrite unread data": without the shrink-by-one step
WriteBytesPlanNoShrink(n, wp, rp) ==
    LET b0 == Min(n, ContiguousSpace(wp, rp))
    IN  [ bytesToWrite |-> b0, nextWritePosition |-> (wp + b0) % Capacity ]

\* the shrink-by-one step without  if (nextWritePosition < 0) += data.length
WriteBytesPlanNoWrap(n, wp, rp) ==
    LET b0 == Min(n, ContiguousSpace(wp, rp))
        n0 == (wp + b0) % Capacity
    IN  IF n0 = rp
        THEN [ bytesToWrite |-> b0 - 1, nextWritePosition |-> n0 - 1 ]
        ELSE [ bytesToWrite |-> b0, nextWritePosition |-> n0 ]

\* the shrink-by-one step taken also when the copy ends at the end of the
\* data region
WriteBytesPlanShrinksAtWrap(n, wp, rp) ==
    LET b0 == Min(n, ContiguousSpace(wp, rp))
        n0 == (wp + b0) % Capacity
    IN  IF n0 = rp \/ n0 = 0
        THEN [ bytesToWrite      |-> b0 - 1,
               nextWritePosition |-> IF n0 - 1 < 0 THEN n0 - 1 + Capacity ELSE n0 - 1 ]
        ELSE [ bytesToWrite |-> b0, nextWritePosition |-> n0 ]

\* bytesToWrite and nextWritePosition of one attempt with n source bytes left
WriteBytesPlan(n, wp, rp) ==
    LET b0 == Min(n, ContiguousSpace(wp, rp))
        n0 == (wp + b0) % Capacity
    IN  IF n0 = rp
        THEN [ bytesToWrite      |-> b0 - 1,
               nextWritePosition |-> IF n0 - 1 < 0 THEN n0 - 1 + Capacity ELSE n0 - 1 ]
        ELSE [ bytesToWrite |-> b0, nextWritePosition |-> n0 ]

\* -------------------------------------------------------- #readBytes (bulk)

ContiguousData(wp, rp) ==
    IF rp < wp THEN wp - rp ELSE Capacity - rp

\* bytesToRead = Math.min(target.length - offset, contiguousData)
ReadBytesPlan(targetLength, offset, wp, rp) ==
    Min(targetLength - offset, ContiguousData(wp, rp))

\* ------------------------------------------------------------ wait / notify

\* where a reader goes on when Atomics.wait / waitAsync returns
AfterReadWait(im) == IF im = "bulk" THEN "r_check" ELSE "r_closed"

\* Atomics.notify(index, 1): wakes a reader parked on writePosition
NotifyReaders(c, im) ==
    IF c.rpc = "r_parked" THEN [c EXCEPT !.rpc = AfterReadWait(im)] ELSE c

\* Atomics.notify(index, 0): wakes a writer parked on readPosition
NotifyWriters(c) ==
    IF c.wpc = "w_parked" THEN [c EXCEPT !.wpc = "wb_snap"] ELSE c

\* ------------------------------------------------- producer: write/writeSync

\* while (totalBytesWritten < source.length) ... return totalBytesWritten
WriteLoop(c) ==
    IF c.totalBytesWritten < Len(c.source)
    THEN [c EXCEPT !.wpc = "wb_snap"]
    ELSE [c EXCEPT !.wpc = "w_ret", !.wret = c.totalBytesWritten]

\* entry of write/writeSync; part_000 resets a closed channel first
WriteCall(c, bytes, im) ==
    LET d == [c EXCEPT !.source = bytes,
                       !.totalBytesWritten = 0,
                       !.atCall = [ NoCall EXCEPT !.writePosition = c.writePosition ]]
    IN  IF im = "byte" /\ c.state # 0
        THEN [d EXCEPT !.wpc = "w_reset0"]
        ELSE WriteLoop(d)

\* #reset zeroing the two cursors and leaving the state word
WriteResetStoreCursorsOnly(c, i) ==
    CASE i = 0 -> [c EXCEPT !.readPosition = 0, !.wpc = "w_reset1"]
      [] i = 1 -> [c EXCEPT !.writePosition = 0, !.wpc = "w_reset2"]
      [] OTHER -> WriteLoop(c)

\* part_000 #reset: Atomics.store(index, i, 0) for i = 0, 1, 2
WriteResetStore(c, i) ==
    CASE i = 0 -> [c EXCEPT !.readPosition = 0, !.wpc = "w_reset1"]
      [] i = 1 -> [c EXCEPT !.writePosition = 0, !.wpc = "w_reset2"]
      [] OTHER -> WriteLoop([c EXCEPT !.state = 0])

\* #writeBytes storing the new writePosition before it copies the bytes
WriteBytesSnapshotPublishes(c, im) ==
    LET wp == c.writePosition
        rp == c.readPosition
        p  == IF im = "bulk"
              THEN WriteBytesPlan(Len(c.source) - c.totalBytesWritten, wp, rp)
              ELSE [ bytesToWrite |-> 1, nextWritePosition |-> (wp + 1) % Capacity ]
    IN  IF IsFull(wp, rp)
        THEN [c EXCEPT !.currentWritePosition = wp,
                       !.checkedReadPosition = rp,
                       !.wpc = "w_wait"]
        ELSE [c EXCEPT !.currentWritePosition = wp,
                       !.checkedReadPosition = rp,
                       !.bytesToWrite = p.bytesToWrite,
                       !.nextWritePosition = p.nextWritePosition,
                       !.writePosition = p.nextWritePosition,
                       !.wpc = "wb_copy"]

\* the two loads and the arithmetic of #writeBytes / #writeByte
WriteBytesSnapshot(c, im) ==
    LET wp == c.writePosition
        rp == c.readPosition
        p  == IF im = "bulk"
              THEN WriteBytesPlan(Len(c.source) - c.totalBytesWritten, wp, rp)
              ELSE [ bytesToWrite |-> 1, nextWritePosition |-> (wp + 1) % Capacity ]
    IN  IF IsFull(wp, rp)
        THEN [c EXCEPT !.currentWritePosition = wp,
                       !.checkedReadPosition = rp,
                       !.wpc = "w_wait"]
        ELSE [c EXCEPT !.currentWritePosition = wp,
                       !.checkedReadPosition = rp,
                       !.bytesToWrite = p.bytesToWrite,
                       !.nextWritePosition = p.nextWritePosition,
                       !.wpc = "wb_copy"]

\* the copy taking source instead of source.subarray(totalBytesWritten)
WriteBytesCopyFromStart(c) ==
    [c EXCEPT !.data = DataSet(c.data, SubSeq(c.source, 1, c.bytesToWrite),
                                c.currentWritePosition),
              !.copiedIn = c.copiedIn + c.bytesToWrite,
              !.wpc = "wb_store"]

\* this.#data.set(bytes.subarray(0, bytesToWrite), currentWritePosition)
WriteBytesCopy(c) ==
    LET bytes == Subarray(c.source, c.totalBytesWritten)
    IN  [c EXCEPT !.data = DataSet(c.data, SubSeq(bytes, 1, c.bytesToWrite),
                                    c.currentWritePosition),
                  !.copiedIn = c.copiedIn + c.bytesToWrite,
                  !.wpc = "wb_store"]

\* this.#writePosition = nextWritePosition
WriteBytesStore(c) ==
    [c EXCEPT !.writePosition = c.nextWritePosition, !.wpc = "wb_notify"]

\* this.#notifyReaders(); return [bytesToWrite, currentReadPosition], then
\* the caller's  if (bytesWritten > 0) totalBytesWritten += bytesWritten
WriteBytesNotify(c, im) ==
    LET d == NotifyReaders(c, im)
        e == [d EXCEPT !.totalBytesWritten = c.totalBytesWritten + c.bytesToWrite,
                       !.bytesToWrite = 0,
                       !.nextWritePosition = 0]
    IN  IF c.bytesToWrite > 0 THEN WriteLoop(e) ELSE [e EXCEPT !.wpc = "w_wait"]

\* the write giving up after a wait instead of trying again
WriteWaitGivesUp(c) ==
    [c EXCEPT !.wpc = "w_ret", !.wret = c.totalBytesWritten]

\* a wait that suspends whatever readPosition holds
WriteWaitUnkeyed(c) == [c EXCEPT !.wpc = "w_parked"]

\* Atomics.wait(index, 0, checkedReadPosition, 10): "not-equal" at once, or park
WriteWait(c) ==
    IF c.readPosition # c.checkedReadPosition
    THEN [c EXCEPT !.wpc = "wb_snap"]
    ELSE [c EXCEPT !.wpc = "w_parked"]

\* the 10 ms timeout of the wait
WriteTimeout(c) == [c EXCEPT !.wpc = "wb_snap"]

\* the return of write/writeSync: wret has been handed to the caller
WriteReturn(c) ==
    [c EXCEPT !.wret = 0,
              !.source = << >>,
              !.totalBytesWritten = 0,
              !.currentWritePosition = 0,
              !.checkedReadPosition = 0,
              !.atCall = NoCall,
              !.wpc = "idle"]

\* #setClosed adding 1 to the state word instead of or-ing bit 0 into it
CloseSetClosedAdds(c) ==
    [c EXCEPT !.state = c.state + 1,
              !.atCall = [ NoCall EXCEPT !.state = c.state ],
              !.wpc = "c_notify"]

\* close(): this.#setClosed()
CloseSetClosed(c) ==
    [c EXCEPT !.state = BitOr(c.state, 1),
              !.atCall = [ NoCall EXCEPT !.state = c.state ],
              !.wpc = "c_notify"]

\* close(): this.#notifyReaders()
CloseNotify(c, im) ==
    [NotifyReaders(c, im) EXCEPT !.atCall = NoCall, !.wpc = "idle"]

\* the loop of reset() ending one word early: the state word is kept
ResetStoresCursorsOnly(c) ==
    [c EXCEPT !.readPosition = 0, !.writePosition = 0]

\* reset(): Atomics.store(index, i, 0) for i = 0, 1, 2
ResetStores(c) ==
    [c EXCEPT !.readPosition = 0, !.writePosition = 0, !.state = 0]

\* --------------------------------------------------- consumer: read/readSync

\* the loop test taken as bytesRead <= limit
ReadLoopOffByOne(c) ==
    IF c.bytesRead <= c.limit
    THEN [c EXCEPT !.rpc = "r_check"]
    ELSE [c EXCEPT !.rpc = "r_ret", !.rret = c.bytesRead]

\* while (bytesRead < limit) ... return bytesRead
ReadLoop(c) ==
    IF c.bytesRead < c.limit
    THEN [c EXCEPT !.rpc = "r_check"]
    ELSE [c EXCEPT !.rpc = "r_ret", !.rret = c.bytesRead]

\* the entry test taken as state == 2: the state word of a channel at
\* end-of-stream is 3, closed and ended
ReadCallEqualsTwo(c, buffer, off, lim) ==
    LET d == [c EXCEPT !.target = buffer, !.offset = off, !.limit = lim, !.bytesRead = 0]
    IN  IF c.state = 2
        THEN [d EXCEPT !.rpc = "r_ret", !.rret = -1]
        ELSE IF d.bytesRead < d.limit
             THEN [d EXCEPT !.rpc = "r_check"]
             ELSE [d EXCEPT !.rpc = "r_ret", !.rret = d.bytesRead]

\* entry of read/readSync: if (this.#endOfStream) return -1
ReadCall(c, buffer, off, lim) ==
    LET d == [c EXCEPT !.target = buffer, !.offset = off, !.limit = lim, !.bytesRead = 0]
    IN  IF c.state > 1
        THEN [d EXCEPT !.rpc = "r_ret", !.rret = -1]
        ELSE ReadLoop(d)

\* this.#readPosition == (checkedWritePosition = this.#writePosition)
ReadCheck(c, im) ==
    LET d == [c EXCEPT !.checkedWritePosition = c.writePosition]
    IN  IF c.readPosition = c.writePosition
        THEN [d EXCEPT !.rpc = IF im = "bulk" THEN "r_closed" ELSE "r_wait"]
        ELSE IF im = "bulk"
             THEN [d EXCEPT !.rpc = "rb_snap"]
             ELSE [d EXCEPT !.currentReadPosition = c.readPosition,
                            !.bytesToRead = 1,
                            !.rpc = "rb_copy"]

\* the empty buffer taken for the end without the test of the closed bit
ReadClosedUntested(c, im) == [c EXCEPT !.rpc = "r_seteos"]

\* if (this.#closed): sync.ts asks before the wait, part_000 after it
ReadClosed(c, im) ==
    IF c.state # 0
    THEN [c EXCEPT !.rpc = "r_seteos"]
    ELSE [c EXCEPT !.rpc = IF im = "bulk" THEN "r_wait" ELSE "r_check"]

\* this.#setEndOfStream(); return bytesRead
ReadSetEndOfStream(c) ==
    [c EXCEPT !.state = BitOr(c.state, 2), !.rret = c.bytesRead, !.rpc = "r_ret"]

\* Atomics.wait(index, 1, checkedWritePosition, 10): "not-equal" at once, or park
ReadWait(c, im) ==
    IF c.writePosition # c.checkedWritePosition
    THEN [c EXCEPT !.rpc = AfterReadWait(im)]
    ELSE [c EXCEPT !.rpc = "r_parked"]

\* a wait without timeout: only a notify ends it
ReadNoTimeout(c, im) == c

\* the read giving up when its wait times out
ReadTimeoutReturns(c, im) == [c EXCEPT !.rpc = "r_ret", !.rret = c.bytesRead]

\* the 10 ms timeout of the wait
ReadTimeout(c, im) == [c EXCEPT !.rpc = AfterReadWait(im)]

\* the two loads and the arithmetic of #readBytes(target, offset + bytesRead)
ReadBytesSnapshot(c) ==
    [c EXCEPT !.currentReadPosition = c.readPosition,
              !.bytesToRead = ReadBytesPlan(Cardinality(DOMAIN c.target),
                                            c.offset + c.bytesRead,
                                            c.writePosition, c.readPosition),
              !.rpc = "rb_copy"]

\* target.set(this.#data.subarray(rp, rp + bytesToRead), offset);
\* part_000: target[offset + bytesRead] = this.#data[readPosition]
ReadBytesCopy(c) ==
    LET bytes == DataSubarray(c.data, c.currentReadPosition, c.bytesToRead)
    IN  [c EXCEPT !.target = TargetSet(c.target, bytes, c.offset + c.bytesRead),
                  !.delivered = c.delivered \o bytes,
                  !.rpc = "rb_store"]

\* this.#readPosition = (currentReadPosition + bytesToRead) % this.#data.length
ReadBytesStore(c) ==
    [c EXCEPT !.readPosition = (c.currentReadPosition + c.bytesToRead) % Capacity,
              !.rpc = "rb_notify"]

\* this.#notifyWriters(); return bytesToRead, then bytesRead += ...
ReadBytesNotify(c) ==
    LET d == NotifyWriters(c)
    IN  ReadLoop([d EXCEPT !.bytesRead = c.bytesRead + c.bytesToRead,
                           !.bytesToRead = 0,
                           !.currentReadPosition = 0])

\* the return of read/readSync: rret has been handed to the caller, who
\* takes the buffer away
ReadReturn(c) ==
    [c EXCEPT !.rret = 0,
              !.target = ZeroTarget,
              !.offset = 0,
              !.limit = 0,
              !.bytesRead = 0,
              !.checkedWritePosition = 0,
              !.rpc = "idle"]

\* ---------------------------------- sync.ts: the asynchronous write and read
\* write (lines 38-54) and read (73-105) translated on their own; writeSync
\* and readSync are the definitions above.  #writeBytes, #readBytes, close and
\* the notifies are the same methods for both.

\* write: while (totalBytesWritten < source.length) ... return totalBytesWritten
WriteLoopAsync(c) ==
    IF c.totalBytesWritten < Len(c.source)
    THEN [c EXCEPT !.wpc = "wb_snap"]
    ELSE [c EXCEPT !.wpc = "w_ret", !.wret = c.totalBytesWritten]

\* entry of write
WriteCallAsync(c, bytes) ==
    WriteLoopAsync([c EXCEPT !.source = bytes,
                             !.totalBytesWritten = 0,
                             !.atCall = [ NoCall EXCEPT !.writePosition = c.writePosition ]])

\* the end of #writeBytes and write's  if (bytesWritten > 0) ... else await
WriteBytesNotifyAsync(c) ==
    LET d == NotifyReaders(c, "bulk")
        e == [d EXCEPT !.totalBytesWritten = c.totalBytesWritten + c.bytesToWrite,
                       !.bytesToWrite = 0,
                       !.nextWritePosition = 0]
    IN  IF c.bytesToWrite > 0 THEN WriteLoopAsync(e) ELSE [e EXCEPT !.wpc = "w_wait"]

\* write awaiting on index 1, the writePosition, instead of index 0
WriteWaitAsyncWrongIndex(c) ==
    IF c.writePosition # c.checkedReadPosition
    THEN [c EXCEPT !.wpc = "w_tick"]
    ELSE [c EXCEPT !.wpc = "w_parked"]

\* await Atomics.waitAsync(index, 0, checkedReadPosition, 10).value: the value
\* is the string "not-equal" at once, or a promise
WriteWaitAsync(c) ==
    IF c.readPosition # c.checkedReadPosition
    THEN [c EXCEPT !.wpc = "w_tick"]
    ELSE [c EXCEPT !.wpc = "w_parked"]

\* the await of a value that is no promise resumes
WriteTickAsync(c) == [c EXCEPT !.wpc = "wb_snap"]

\* the promise resolves "timed-out"
WriteTimeoutAsync(c) == [c EXCEPT !.wpc = "wb_snap"]

\* the promise of write resolves with totalBytesWritten
WriteReturnAsync(c) ==
    [c EXCEPT !.wret = 0,
              !.source = << >>,
              !.totalBytesWritten = 0,
              !.currentWritePosition = 0,
              !.checkedReadPosition = 0,
              !.atCall = NoCall,
              !.wpc = "idle"]

\* read: while (bytesRead < limit) ... return bytesRead
ReadLoopAsync(c) ==
    IF c.bytesRead < c.limit
    THEN [c EXCEPT !.rpc = "r_check"]
    ELSE [c EXCEPT !.rpc = "r_ret", !.rret = c.bytesRead]

\* entry of read: if (this.#endOfStream) return -1
ReadCallAsync(c, buffer, off, lim) ==
    LET d == [c EXCEPT !.target = buffer, !.offset = off, !.limit = lim, !.bytesRead = 0]
    IN  IF c.state > 1
        THEN [d EXCEPT !.rpc = "r_ret", !.rret = -1]
        ELSE ReadLoopAsync(d)

\* this.#readPosition == (checkedWritePosition = this.#writePosition)
ReadCheckAsync(c) ==
    LET d == [c EXCEPT !.checkedWritePosition = c.writePosition]
    IN  IF c.readPosition = c.writePosition
        THEN [d EXCEPT !.rpc = "r_closed"]
        ELSE [d EXCEPT !.rpc = "rb_snap"]

\* if (this.#closed)
ReadClosedAsync(c) ==
    IF c.state # 0
    THEN [c EXCEPT !.rpc = "r_seteos"]
    ELSE [c EXCEPT !.rpc = "r_wait"]

\* this.#setEndOfStream(); return bytesRead
ReadSetEndOfStreamAsync(c) ==
    [c EXCEPT !.state = BitOr(c.state, 2), !.rret = c.bytesRead, !.rpc = "r_ret"]

\* await Atomics.waitAsync(index, 1, checkedWritePosition, 10).value
ReadWaitAsync(c) ==
    IF c.writePosition # c.checkedWritePosition
    THEN [c EXCEPT !.rpc = "r_tick"]
    ELSE [c EXCEPT !.rpc = "r_parked"]

\* the await of a value that is no promise resumes
ReadTickAsync(c) == [c EXCEPT !.rpc = "r_check"]

\* the promise resolves "timed-out"
ReadTimeoutAsync(c) == [c EXCEPT !.rpc = "r_check"]

\* the end of #readBytes and read's  bytesRead += ...
ReadBytesNotifyAsync(c) ==
    LET d == NotifyWriters(c)
    IN  ReadLoopAsync([d EXCEPT !.bytesRead = c.bytesRead + c.bytesToRead,
                                !.bytesToRead = 0,
                                !.currentReadPosition = 0])

\* the promise of read resolves with bytesRead
ReadReturnAsync(c) ==
    [c EXCEPT !.rret = 0,
              !.target = ZeroTarget,
              !.offset = 0,
              !.limit = 0,
              !.bytesRead = 0,
              !.checkedWritePosition = 0,
              !.rpc = "idle"]

\* what a call of write / read has done to the shared region and to its
\* locals, the pending resumption of an await aside
Resumed(c) ==
    [c EXCEPT !.wpc = IF c.wpc = "w_tick" THEN "wb_snap" ELSE c.wpc,
              !.rpc = IF c.rpc = "r_tick" THEN "r_check" ELSE c.rpc]

\* ------------------------------------------------------------- constructor

\* static #indexBytes = 3 * 4
indexBytes == 3 * 4

\* Int32Array.BYTES_PER_ELEMENT
BytesPerElement == 4

\* the constructor's argument: a size ("size", n) or a SharedArrayBuffer of
\* byteLength n ("buffer", n); nothing is constructed yet
NotConstructed(kind, n) ==
    [ kind |-> kind, n |-> n, done |-> FALSE, thrown |-> "none",
      byteLength |-> 0, indexLength |-> 0, dataOffset |-> 0, dataLength |-> 0 ]

\* new Int32Array(buffer, byteOffset 0, length): the view of length elements
\* must lie within the buffer, or a RangeError is thrown
IndexViewFits(byteLength, length) == length * BytesPerElement <= byteLength

\* new Uint8Array(buffer, byteOffset): the offset must lie within the buffer
DataViewFits(byteLength, byteOffset) == byteOffset <= byteLength

\* constructor(sizeInBytesOrBuffer)
Construct(m) ==
    LET byteLength == IF m.kind = "size" THEN m.n + indexBytes ELSE m.n
    IN  IF ~IndexViewFits(byteLength, indexBytes) \/ ~DataViewFits(byteLength, indexBytes)
        THEN [m EXCEPT !.done = TRUE, !.thrown = "RangeError"]
        ELSE [m EXCEPT !.done = TRUE,
                       !.byteLength = byteLength,
                       !.indexLength = indexBytes,
                       !.dataOffset = indexBytes,
                       !.dataLength = byteLength - indexBytes]

\* ------------------------------------------ worker.ts: the input device
\* The read of the device createInputStream registers: the caller (the
\* core's file system) passes its buffer, an offset into it and a length.

\* the length of the caller's buffer
BufferLen == TargetLen + 1

ZeroBuffer == [i \in 0 .. (BufferLen - 1) |-> 0]

\* no read of the device is in flight
DeviceIdle ==
    [ at |-> "idle", buffer |-> ZeroBuffer, offset |-> 0, length |-> 0,
      bytesRead |-> 0, ret |-> 0 ]

\* const target = new Uint8Array(length)
DeviceTarget(length) == [i \in 0 .. (length - 1) |-> 0]

\* read(_stream, buffer, offset, length) is called and calls readSync
DeviceRead(d, offset, length) ==
    [ at |-> "readSync", buffer |-> ZeroBuffer, offset |-> offset, length |-> length,
      bytesRead |-> 0, ret |-> 0 ]

\* a read that returns what readSync returned
DeviceReadEndsAsIs(d, target, bytesRead) ==
    [d EXCEPT !.at = "idle",
              !.bytesRead = bytesRead,
              !.buffer = [i \in DOMAIN d.buffer |->
                            IF d.offset <= i /\ i < d.offset + bytesRead
                            THEN target[i - d.offset]
                            ELSE d.buffer[i]],
              !.ret = bytesRead]

\* readSync has returned bytesRead: for (i < bytesRead) buffer[offset + i] =
\* target[i]; if (bytesRead < 0) return 0; return bytesRead
DeviceReadEnds(d, target, bytesRead) ==
    [d EXCEPT !.at = "idle",
              !.bytesRead = bytesRead,
              !.buffer = [i \in DOMAIN d.buffer |->
                            IF d.offset <= i /\ i < d.offset + bytesRead
                            THEN target[i - d.offset]
                            ELSE d.buffer[i]],
              !.ret = IF bytesRead < 0 THEN 0 ELSE bytesRead]

\* ------------------------------------------------ FFmpeg (classes.ts) / worker

MessageIDs == 0 .. (MaxRequests - 1)

\* the request-based API other than load: exec, writeFile, readFile,
\* addInputStream, ... all of which are one #send
RequestTypes == {"EXEC", "WRITE_FILE", "CREATE_INPUT_STREAM"}

\* new FFmpeg(): no worker, nothing pending.  promise[id] is the state of the
\* promise #send returned for message id; inbox / outbox are the messages
\* posted to and by the worker and not yet handled; ffmpeg and loading are
\* the worker's module variable and its load() calls awaiting the core,
\* outputStreams the worker's map of output streams, executing the exec
\* request the worker is in and where in exec() it is.
FFmpegNew ==
    [ worker    |-> FALSE,
      loaded    |-> FALSE,
      resolves  |-> {},
      rejects   |-> {},
      promise   |-> [i \in MessageIDs |-> "none"],
      messageID |-> 0,
      inbox     |-> << >>,
      outbox    |-> << >>,
      ffmpeg    |-> FALSE,
      loading   |-> {},
      outputStreams |-> {},
      executing |-> {},
      device    |-> DeviceIdle,
      op        |-> "new",
      result    |-> "none" ]

\* getMessageID() of utils.ts: a counter
GetMessageID(f) == f.messageID

\* resolve(v) / reject(v) of a promise: the first settlement stays
Settle(promise, id, v) ==
    IF promise[id] = "pending" THEN [promise EXCEPT ![id] = v] ELSE promise

\* #send: reject without a worker, else post the message and keep the callbacks
Send(f, type) ==
    IF ~f.worker
    THEN [f EXCEPT !.result = "ERROR_NOT_LOADED"]
    ELSE LET id == GetMessageID(f)
         IN  [f EXCEPT !.messageID = id + 1,
                       !.inbox = Append(f.inbox, [id |-> id, type |-> type]),
                       !.resolves = f.resolves \cup {id},
                       !.rejects = f.rejects \cup {id},
                       !.promise = [f.promise EXCEPT ![id] = "pending"],
                       !.result = "promise"]

\* load(): create the worker if there is none, then #send LOAD
Load(f) ==
    LET g == IF ~f.worker
             THEN [f EXCEPT !.worker = TRUE, !.inbox = << >>, !.outbox = << >>,
                            !.ffmpeg = FALSE, !.loading = {},
                            !.outputStreams = {}, !.executing = {}]
             ELSE f
    IN  Send([g EXCEPT !.op = "load"], "LOAD")

\* a request-based API call
Request(f, type) == Send([f EXCEPT !.op = type], type)

\* the abort listener of #send: reject(AbortError); the callbacks stay
Abort(f, id) == [f EXCEPT !.promise = Settle(f.promise, id, "AbortError")]

RECURSIVE RejectAll(_, _)
\* for (const id of ids) this.#rejects[id](ERROR_TERMINATED)
RejectAll(promise, ids) ==
    IF ids = {} THEN promise
    ELSE LET id == CHOOSE i \in ids : TRUE
         IN  RejectAll(Settle(promise, id, "ERROR_TERMINATED"), ids \ {id})

\* terminate() leaving this.loaded as it is
TerminateKeepsLoaded(f) ==
    LET g == [f EXCEPT !.promise = RejectAll(f.promise, f.rejects),
                       !.rejects = {},
                       !.resolves = f.resolves \ f.rejects,
                       !.op = "terminate",
                       !.result = "none"]
    IN  IF f.worker
        THEN [g EXCEPT !.worker = FALSE, !.inbox = << >>, !.outbox = << >>,
                       !.ffmpeg = FALSE, !.loading = {},
                       !.outputStreams = {}, !.executing = {}]
        ELSE g

\* terminate(): reject and forget what is pending, terminate the worker
Terminate(f) ==
    LET g == [f EXCEPT !.promise = RejectAll(f.promise, f.rejects),
                       !.rejects = {},
                       !.resolves = f.resolves \ f.rejects,
                       !.op = "terminate",
                       !.result = "none"]
    IN  IF f.worker
        THEN [g EXCEPT !.worker = FALSE, !.loaded = FALSE,
                       !.inbox = << >>, !.outbox = << >>,
                       !.ffmpeg = FALSE, !.loading = {},
                       !.outputStreams = {}, !.executing = {}]
        ELSE g

\* the message types the switch of the worker's onmessage has a case for
\* (those of them that are modelled)
SwitchTypes == {"LOAD", "EXEC", "CREATE_INPUT_STREAM", "CREATE_OUTPUT_STREAM", "WRITE_FILE"}

\* an onmessage that drops a request that comes before the core is loaded
WorkerOnMessageDrops(f, ok) ==
    LET m    == Head(f.inbox)
        rest == [f EXCEPT !.inbox = Tail(f.inbox)]
    IN  IF m.type = "LOAD"
        THEN [rest EXCEPT !.loading = f.loading \cup {m.id}]
        ELSE IF ~f.ffmpeg
             THEN rest
             ELSE IF ~ok \/ m.type \notin SwitchTypes
                  THEN [rest EXCEPT !.outbox = Append(f.outbox, [id |-> m.id, type |-> "ERROR"])]
                  ELSE [rest EXCEPT !.outbox = Append(f.outbox, [id |-> m.id, type |-> m.type])]

\* the worker's onmessage: LOAD starts load(), anything else needs ffmpeg and
\* answers with its type, or with ERROR when the operation throws or the
\* switch has no case for the type
WorkerOnMessage(f, ok) ==
    LET m    == Head(f.inbox)
        rest == [f EXCEPT !.inbox = Tail(f.inbox)]
    IN  IF m.type = "LOAD"
        THEN [rest EXCEPT !.loading = f.loading \cup {m.id}]
        ELSE IF ~f.ffmpeg \/ ~ok \/ m.type \notin SwitchTypes
             THEN [rest EXCEPT !.outbox = Append(f.outbox, [id |-> m.id, type |-> "ERROR"])]
             ELSE [rest EXCEPT !.outbox = Append(f.outbox, [id |-> m.id, type |-> m.type])]

\* createOutputStream in the worker's onmessage: the stream over the shared
\* buffer is put into outputStreams unless something before that throws
WorkerCreateOutputStream(f, ok) ==
    LET g == WorkerOnMessage(f, ok)
    IN  IF f.ffmpeg /\ ok
        THEN [g EXCEPT !.outputStreams = f.outputStreams \cup {"ostream"}]
        ELSE g

\* the worker's onmessage enters exec(): ffmpeg.setTimeout, ffmpeg.exec
WorkerExecBegins(f) ==
    [f EXCEPT !.inbox = Tail(f.inbox),
              !.executing = {[id |-> Head(f.inbox).id, at |-> "exec"]}]

\* the id of the exec request the worker is in
ExecutingID(f) == (CHOOSE e \in f.executing : TRUE).id

\* ffmpeg.exec(...args) throws: onmessage catches and posts ERROR
WorkerExecThrows(f) ==
    [f EXCEPT !.executing = {},
              !.outbox = Append(f.outbox, [id |-> ExecutingID(f), type |-> "ERROR"])]

\* ffmpeg.exec(...args) returns; ret = ffmpeg.ret; ffmpeg.reset()
WorkerExecReturns(f) ==
    [f EXCEPT !.executing = {[id |-> ExecutingID(f), at |-> "close"]}]

\* closeOutputStreams() has called close() on the streams of outputStreams
WorkerExecClosed(f) ==
    [f EXCEPT !.executing = {[id |-> ExecutingID(f), at |-> "post"]}]

\* exec returns ret and onmessage posts { id, type, data }
WorkerExecReplies(f) ==
    [f EXCEPT !.executing = {},
              !.outbox = Append(f.outbox, [id |-> ExecutingID(f), type |-> "EXEC"])]

\* the worker's load() ends: the core is there, or the import failed
WorkerLoadEnds(f, id, ok) ==
    IF ok
    THEN [f EXCEPT !.loading = f.loading \ {id},
                   !.ffmpeg = TRUE,
                   !.outbox = Append(f.outbox, [id |-> id, type |-> "LOAD"])]
    ELSE [f EXCEPT !.loading = f.loading \ {id},
                   !.outbox = Append(f.outbox, [id |-> id, type |-> "ERROR"])]

\* the handler #registerHandlers puts on the worker
OnMessage(f) ==
    LET m == Head(f.outbox)
        g == [f EXCEPT !.outbox = Tail(f.outbox),
                       !.resolves = f.resolves \ {m.id},
                       !.rejects = f.rejects \ {m.id}]
    IN  CASE m.type = "LOAD" ->
                [g EXCEPT !.loaded = TRUE, !.promise = Settle(f.promise, m.id, "resolved")]
          [] m.type = "ERROR" ->
                [g EXCEPT !.promise = Settle(f.promise, m.id, "ERROR")]
          [] OTHER ->
                [g EXCEPT !.promise = Settle(f.promise, m.id, "resolved")]

Init ==
    /\ impl \in Impls
    /\ ch = Fresh
    /\ fresh = Fresh
    /\ passed = 0
    /\ base = 0
    /\ closeCalled = FALSE
    /\ writeAfterClose = FALSE
    /\ ff = FFmpegNew
    /\ made = NotConstructed("size", Capacity)


\* ------------------------------------------------------------------ actions

\* the channel and the channel constructed at the last reset() take the step
Both(F(_)) == ch' = F(ch) /\ fresh' = F(fresh)

Ghosts == <<impl, passed, base, closeCalled, writeAfterClose, ff, made>>

\* the bytes of the next write call: numbered on from those passed so far
NextBytes(n) == [k \in 1 .. n |-> passed + k]

\* a new epoch of the histories: what was copied and delivered before a
\* reset belongs to the channel's past
NewEpoch(c) == [c EXCEPT !.copiedIn = 0, !.delivered = << >>]

\* part_000: a write that finds the channel closed runs #reset first
WillReset == impl = "byte" /\ ch.state # 0

\* write / writeSync called with n bytes.  close() tells the consumer that no
\* more writes will occur; a producer that writes to a closed sync.ts channel
\* all the same is modelled, the reuse of a closed part_000 channel (WillReset)
\* is not part of this next-state relation.
write(n) ==
    /\ ch.wpc = "idle"
    /\ passed + n <= MaxBytes
    /\ ~WillReset
    /\ Both(LAMBDA c : WriteCall(c, NextBytes(n), impl))
    /\ passed' = passed + n
    /\ writeAfterClose' = (writeAfterClose \/ closeCalled)
    /\ UNCHANGED <<impl, base, closeCalled, ff, made>>

\* part_000: write / writeSync called with n bytes on a closed channel; the
\* call goes on with #reset, whatever the consumer is doing
write_closed(n) ==
    /\ ch.wpc = "idle"
    /\ passed + n <= MaxBytes
    /\ WillReset
    /\ Both(LAMBDA c : WriteCall(c, NextBytes(n), impl))
    /\ passed' = passed + n
    /\ writeAfterClose' = (writeAfterClose \/ closeCalled)
    /\ UNCHANGED <<impl, base, closeCalled, ff, made>>

write_reset(i) ==
    /\ ch.wpc = CASE i = 0 -> "w_reset0" [] i = 1 -> "w_reset1" [] OTHER -> "w_reset2"
    /\ Both(LAMBDA c : WriteResetStore(c, i))
    /\ UNCHANGED Ghosts

writeBytes_snapshot ==
    /\ ch.wpc = "wb_snap"
    /\ Both(LAMBDA c : WriteBytesSnapshot(c, impl))
    /\ UNCHANGED Ghosts

writeBytes_copy ==
    /\ ch.wpc = "wb_copy"
    /\ Both(WriteBytesCopy)
    /\ UNCHANGED Ghosts

writeBytes_store ==
    /\ ch.wpc = "wb_store"
    /\ Both(WriteBytesStore)
    /\ UNCHANGED Ghosts

writeBytes_notify ==
    /\ ch.wpc = "wb_notify"
    /\ Both(LAMBDA c : WriteBytesNotify(c, impl))
    /\ UNCHANGED Ghosts

write_wait ==
    /\ ch.wpc = "w_wait"
    /\ Both(WriteWait)
    /\ UNCHANGED Ghosts

write_timeout ==
    /\ ch.wpc = "w_parked"
    /\ Both(WriteTimeout)
    /\ UNCHANGED Ghosts

write_return ==
    /\ ch.wpc = "w_ret"
    /\ Both(WriteReturn)
    /\ UNCHANGED Ghosts

close ==
    /\ ch.wpc = "idle"
    /\ Both(CloseSetClosed)
    /\ closeCalled' = TRUE
    /\ UNCHANGED <<impl, passed, base, writeAfterClose, ff, made>>

close_notify ==
    /\ ch.wpc = "c_notify"
    /\ Both(LAMBDA c : CloseNotify(c, impl))
    /\ UNCHANGED Ghosts

read(off, lim) ==
    /\ ch.rpc = "idle"
    /\ off + lim <= TargetLen
    /\ Both(LAMBDA c : ReadCall(c, ZeroTarget, off, lim))
    /\ UNCHANGED Ghosts

read_check ==
    /\ ch.rpc = "r_check"
    /\ Both(LAMBDA c : ReadCheck(c, impl))
    /\ UNCHANGED Ghosts

read_closed ==
    /\ ch.rpc = "r_closed"
    /\ Both(LAMBDA c : ReadClosed(c, impl))
    /\ UNCHANGED Ghosts

read_setEndOfStream ==
    /\ ch.rpc = "r_seteos"
    /\ Both(ReadSetEndOfStream)
    /\ UNCHANGED Ghosts

read_wait ==
    /\ ch.rpc = "r_wait"
    /\ Both(LAMBDA c : ReadWait(c, impl))
    /\ UNCHANGED Ghosts

read_timeout ==
    /\ ch.rpc = "r_parked"
    /\ Both(LAMBDA c : ReadTimeout(c, impl))
    /\ UNCHANGED Ghosts

readBytes_snapshot ==
    /\ ch.rpc = "rb_snap"
    /\ Both(ReadBytesSnapshot)
    /\ UNCHANGED Ghosts

readBytes_copy ==
    /\ ch.rpc = "rb_copy"
    /\ Both(ReadBytesCopy)
    /\ UNCHANGED Ghosts

readBytes_store ==
    /\ ch.rpc = "rb_store"
    /\ Both(ReadBytesStore)
    /\ UNCHANGED Ghosts

readBytes_notify ==
    /\ ch.rpc = "rb_notify"
    /\ Both(ReadBytesNotify)
    /\ UNCHANGED Ghosts

read_return ==
    /\ ch.rpc = "r_ret"
    /\ Both(ReadReturn)
    /\ UNCHANGED Ghosts

\* reset() of sync.ts, called (FFmpeg.resetStreams) with no read or write in
\* flight; the companion channel is constructed anew at this moment
reset ==
    /\ impl = "bulk"
    /\ ch.wpc = "idle"
    /\ ch.rpc = "idle"
    /\ ch' = NewEpoch(ResetStores(ch))
    /\ fresh' = Fresh
    /\ base' = passed
    /\ closeCalled' = FALSE
    /\ writeAfterClose' = FALSE
    /\ UNCHANGED <<impl, passed, ff, made>>

ProducerStep ==
    \/ writeBytes_snapshot
    \/ writeBytes_copy
    \/ writeBytes_store
    \/ writeBytes_notify
    \/ write_wait
    \/ write_timeout
    \/ write_return
    \/ close_notify

ConsumerStep ==
    \/ read_check
    \/ read_closed
    \/ read_setEndOfStream
    \/ read_wait
    \/ read_timeout
    \/ readBytes_snapshot
    \/ readBytes_copy
    \/ readBytes_store
    \/ readBytes_notify
    \/ read_return

Next ==
    \/ \E n \in 0 .. MaxChunk : write(n)
    \/ close
    \/ \E off \in 0 .. (TargetLen - 1) : \E lim \in 0 .. TargetLen : read(off, lim)
    \/ reset
    \/ ProducerStep
    \/ ConsumerStep

Spec == Init /\ [][Next]_vars

\* the consumer thread keeps running and the 10 ms timeout of a wait fires
FairSpec == Spec /\ WF_vars(ConsumerStep)

\* the consumer calls read / readSync for at least one byte
ReadSome ==
    \E off \in 0 .. (TargetLen - 1) : \E lim \in 1 .. TargetLen : read(off, lim)

\* both threads keep running, the timeouts of their waits fire, and the
\* consumer keeps reading: it calls read again and again
FairBoth ==
    /\ Spec
    /\ WF_vars(ProducerStep)
    /\ WF_vars(ConsumerStep)
    /\ SF_vars(ReadSome)

\* part_000 alone, with the reuse of a closed channel: a write of at least
\* one byte to a closed channel resets it on the way
InitReuse == Init /\ impl = "byte"

\* part_000 has no #readBytes: read / readSync copy one byte per loop turn
ConsumerStepByte ==
    \/ read_check
    \/ read_closed
    \/ read_setEndOfStream
    \/ read_wait
    \/ read_timeout
    \/ readBytes_copy
    \/ readBytes_store
    \/ readBytes_notify
    \/ read_return

NextReuse ==
    \/ \E n \in 0 .. MaxChunk : write(n)
    \/ \E n \in 1 .. MaxChunk : write_closed(n)
    \/ \E i \in 0 .. 2 : write_reset(i)
    \/ close
    \/ \E off \in 0 .. (TargetLen - 1) : \E lim \in 0 .. TargetLen : read(off, lim)
    \/ ProducerStep
    \/ ConsumerStepByte

SpecReuse == InitReuse /\ [][NextReuse]_vars

\* ------------------------ part_000: a drained, ended channel written again
\* The consumer has drained the closed channel and latched end-of-stream and
\* is between calls when the producer writes again; it calls read again once
\* the write has run its #reset.

\* write / writeSync called on the closed, drained channel at end-of-stream:
\* a new epoch of the histories starts with the bytes of this call
write_reused(n) ==
    /\ impl = "byte"
    /\ ch.wpc = "idle"
    /\ ch.rpc = "idle"
    /\ ch.state = 3
    /\ ch.readPosition = ch.writePosition
    /\ passed + n <= MaxBytes
    /\ Both(LAMBDA c : NewEpoch(WriteCall(c, NextBytes(n), impl)))
    /\ passed' = passed + n
    /\ base' = passed
    /\ closeCalled' = FALSE
    /\ writeAfterClose' = TRUE
    /\ UNCHANGED <<impl, ff, made>>

\* read / readSync called when no #reset is under way
read_sequel(off, lim) ==
    /\ ch.wpc \notin {"w_reset0", "w_reset1", "w_reset2"}
    /\ read(off, lim)

NextDrained ==
    \/ \E n \in 0 .. MaxChunk : write(n)
    \/ \E n \in 1 .. MaxChunk : write_reused(n)
    \/ \E i \in 0 .. 2 : write_reset(i)
    \/ close
    \/ \E off \in 0 .. (TargetLen - 1) : \E lim \in 0 .. TargetLen : read_sequel(off, lim)
    \/ ProducerStep
    \/ ConsumerStepByte

SpecDrained == InitReuse /\ [][NextDrained]_vars

\* ------------------------------------------------- FFmpeg and its worker

Stream == <<impl, ch, fresh, passed, base, closeCalled, writeAfterClose, made>>

ffmpeg_load ==
    /\ ff.messageID < MaxRequests
    /\ ff' = Load(ff)
    /\ UNCHANGED Stream

ffmpeg_request(type) ==
    /\ ff.worker => ff.messageID < MaxRequests
    /\ ff' = Request(ff, type)
    /\ UNCHANGED Stream

ffmpeg_abort(id) ==
    /\ ff.promise[id] # "none"
    /\ ff' = Abort(ff, id)
    /\ UNCHANGED Stream

ffmpeg_terminate ==
    /\ ff' = Terminate(ff)
    /\ UNCHANGED Stream

worker_onmessage(ok) ==
    /\ ff.inbox # << >>
    /\ ff' = WorkerOnMessage(ff, ok)
    /\ UNCHANGED Stream

worker_load_ends(id, ok) ==
    /\ id \in ff.loading
    /\ ff' = WorkerLoadEnds(ff, id, ok)
    /\ UNCHANGED Stream

ffmpeg_onmessage ==
    /\ ff.outbox # << >>
    /\ ff' = OnMessage(ff)
    /\ UNCHANGED Stream

InitFFmpeg == Init /\ impl = "bulk"

NextFFmpeg ==
    \/ ffmpeg_load
    \/ \E type \in RequestTypes : ffmpeg_request(type)
    \/ \E id \in MessageIDs : ffmpeg_abort(id)
    \/ ffmpeg_terminate
    \/ \E ok \in BOOLEAN : worker_onmessage(ok)
    \/ \E id \in MessageIDs : \E ok \in BOOLEAN : worker_load_ends(id, ok)
    \/ ffmpeg_onmessage

SpecFFmpeg == InitFFmpeg /\ [][NextFFmpeg]_vars

\* ------------------------------------------ the worker's replies, any type
\* The worker's onmessage under every kind of message: the requests of the
\* API and one of a type its switch has no case for.

AnyTypes == RequestTypes \cup {"UNKNOWN"}

NextWorker ==
    \/ ffmpeg_load
    \/ \E type \in AnyTypes : ffmpeg_request(type)
    \/ \E id \in MessageIDs : ffmpeg_abort(id)
    \/ ffmpeg_terminate
    \/ \E ok \in BOOLEAN : worker_onmessage(ok)
    \/ \E id \in MessageIDs : \E ok \in BOOLEAN : worker_load_ends(id, ok)
    \/ ffmpeg_onmessage

SpecWorker == InitFFmpeg /\ [][NextWorker]_vars

\* --------------------------------------- exec and the worker's output stream
\* ch is the channel of addStreamPair: the worker's output device writes it
\* with writeSync while ffmpeg.exec runs, the main side reads it with
\* readFromOutputStream.  The worker is one thread: it handles no other
\* message while it is in exec().

ExecTypes == {"EXEC", "CREATE_OUTPUT_STREAM"}

WorkerAt(at) == \E e \in ff.executing : e.at = at

\* exec / addStreamPair on the main side
exec_request(type) ==
    /\ ff.worker
    /\ ffmpeg_request(type)

exec_worker_load_ends(id, ok) ==
    /\ ff.executing = {}
    /\ worker_load_ends(id, ok)

\* the worker's onmessage for LOAD, for CREATE_OUTPUT_STREAM, and for EXEC
\* before the core is loaded
exec_worker_onmessage(ok) ==
    /\ ff.executing = {}
    /\ ff.inbox # << >>
    /\ Head(ff.inbox).type = "EXEC" => ~ff.ffmpeg
    /\ ff' = IF Head(ff.inbox).type = "CREATE_OUTPUT_STREAM"
             THEN WorkerCreateOutputStream(ff, ok)
             ELSE WorkerOnMessage(ff, ok)
    /\ UNCHANGED Stream

exec_begins ==
    /\ ff.executing = {}
    /\ ff.inbox # << >>
    /\ Head(ff.inbox).type = "EXEC"
    /\ ff.ffmpeg
    /\ ff' = WorkerExecBegins(ff)
    /\ UNCHANGED Stream

\* the output device's write while ffmpeg.exec runs: outputStream.writeSync
device_write(n) ==
    /\ WorkerAt("exec")
    /\ "ostream" \in ff.outputStreams
    /\ write(n)

\* the output device's close while ffmpeg.exec runs: outputStream.close()
device_close ==
    /\ WorkerAt("exec")
    /\ "ostream" \in ff.outputStreams
    /\ close

exec_throws ==
    /\ WorkerAt("exec")
    /\ ch.wpc = "idle"
    /\ ff' = WorkerExecThrows(ff)
    /\ UNCHANGED Stream

exec_returns ==
    /\ WorkerAt("exec")
    /\ ch.wpc = "idle"
    /\ ff' = WorkerExecReturns(ff)
    /\ UNCHANGED Stream

\* closeOutputStreams(): for (const stream of outputStreams.values()) stream.close()
exec_closeOutputStreams ==
    /\ WorkerAt("close")
    /\ ff' = WorkerExecClosed(ff)
    /\ IF "ostream" \in ff.outputStreams
       THEN /\ Both(CloseSetClosed)
            /\ closeCalled' = TRUE
            /\ UNCHANGED <<impl, passed, base, writeAfterClose, made>>
       ELSE UNCHANGED Stream

exec_replies ==
    /\ WorkerAt("post")
    /\ ch.wpc = "idle"
    /\ ff' = WorkerExecReplies(ff)
    /\ UNCHANGED Stream

InitExec == Init /\ impl = "bulk"

NextExec ==
    \/ ffmpeg_load
    \/ \E type \in ExecTypes : exec_request(type)
    \/ \E ok \in BOOLEAN : exec_worker_onmessage(ok)
    \/ \E id \in MessageIDs : \E ok \in BOOLEAN : exec_worker_load_ends(id, ok)
    \/ ffmpeg_onmessage
    \/ exec_begins
    \/ \E n \in 1 .. MaxChunk : device_write(n)
    \/ device_close
    \/ exec_throws
    \/ exec_returns
    \/ exec_closeOutputStreams
    \/ exec_replies
    \/ \E off \in 0 .. (TargetLen - 1) : \E lim \in 0 .. TargetLen : read(off, lim)
    \/ ProducerStep
    \/ ConsumerStep

SpecExec == InitExec /\ [][NextExec]_vars

\* ------------------------------------------ the worker's input device
\* ch is the channel of addInputStream once load() and addInputStream() have
\* resolved: the main side writes it with writeToInputStream, the worker's
\* input device reads it with readSync.

\* the FFmpeg object after load() and addInputStream() resolved
FFmpegStreaming ==
    [FFmpegNew EXCEPT !.worker = TRUE,
                      !.loaded = TRUE,
                      !.ffmpeg = TRUE,
                      !.messageID = 2,
                      !.promise = [i \in MessageIDs |-> IF i < 2 THEN "resolved" ELSE "none"],
                      !.op = "CREATE_INPUT_STREAM",
                      !.result = "promise"]

\* the core calls the device's read
device_read(offset, length) ==
    /\ ff.device.at = "idle"
    /\ ch.rpc = "idle"
    /\ offset + length <= BufferLen
    /\ Both(LAMBDA c : ReadCall(c, DeviceTarget(length), 0, length))
    /\ ff' = [ff EXCEPT !.device = DeviceRead(ff.device, offset, length)]
    /\ UNCHANGED <<impl, passed, base, closeCalled, writeAfterClose, made>>

\* readSync returns to the device's read, which copies and returns
device_read_ends ==
    /\ ff.device.at = "readSync"
    /\ ch.rpc = "r_ret"
    /\ Both(ReadReturn)
    /\ ff' = [ff EXCEPT !.device = DeviceReadEnds(ff.device, ch.target, ch.rret)]
    /\ UNCHANGED <<impl, passed, base, closeCalled, writeAfterClose, made>>

\* readSync in flight
ConsumerStepDevice ==
    \/ read_check
    \/ read_closed
    \/ read_setEndOfStream
    \/ read_wait
    \/ read_timeout
    \/ readBytes_snapshot
    \/ readBytes_copy
    \/ readBytes_store
    \/ readBytes_notify

InitDevice ==
    /\ impl = "bulk"
    /\ ch = Fresh
    /\ fresh = Fresh
    /\ passed = 0
    /\ base = 0
    /\ closeCalled = FALSE
    /\ writeAfterClose = FALSE
    /\ ff = FFmpegStreaming
    /\ made = NotConstructed("size", Capacity)

NextDevice ==
    \/ \E n \in 0 .. MaxChunk : write(n)
    \/ close
    \/ \E offset \in 0 .. (BufferLen - 1) : \E length \in 0 .. TargetLen :
          device_read(offset, length)
    \/ device_read_ends
    \/ ProducerStep
    \/ ConsumerStepDevice

SpecDevice == InitDevice /\ [][NextDevice]_vars

\* ------------------------------------- writes without help of the consumer

\* a write / writeSync is in flight
Writing(c) == c.wpc \notin {"idle", "w_ret", "c_notify"}

\* the consumer thread, which here takes no step from the call of a write to
\* its return
ConsumerBetweenWrites ==
    /\ ch.wpc \in {"idle", "c_notify"}
    /\ \/ \E off \in 0 .. (TargetLen - 1) : \E lim \in 0 .. TargetLen : read(off, lim)
       \/ ConsumerStep

NextAlone ==
    \/ \E n \in 0 .. MaxChunk : write(n)
    \/ close
    \/ reset
    \/ ProducerStep
    \/ ConsumerBetweenWrites

SpecAlone == Init /\ [][NextAlone]_vars

\* the producer thread keeps running
FairAlone == SpecAlone /\ WF_vars(ProducerStep)

\* ------------------------------- write / read next to writeSync / readSync
\* Here ch is driven by write and read, and fresh, constructed with it, by
\* writeSync and readSync: the same calls, the same schedule.

\* ch takes a step of the asynchronous variant, fresh that of the blocking one
Pair(F(_), G(_)) == ch' = F(ch) /\ fresh' = G(fresh)

ProducerVariants ==
    \/ ch.wpc = "wb_snap" /\ Pair(LAMBDA c : WriteBytesSnapshot(c, "bulk"),
                                  LAMBDA c : WriteBytesSnapshot(c, "bulk"))
    \/ ch.wpc = "wb_copy" /\ Pair(WriteBytesCopy, WriteBytesCopy)
    \/ ch.wpc = "wb_store" /\ Pair(WriteBytesStore, WriteBytesStore)
    \/ ch.wpc = "wb_notify" /\ Pair(WriteBytesNotifyAsync,
                                    LAMBDA c : WriteBytesNotify(c, "bulk"))
    \/ ch.wpc = "w_wait" /\ Pair(WriteWaitAsync, WriteWait)
    \/ ch.wpc = "w_tick" /\ Pair(WriteTickAsync, LAMBDA c : c)
    \/ ch.wpc = "w_parked" /\ Pair(WriteTimeoutAsync, WriteTimeout)
    \/ ch.wpc = "w_ret" /\ Pair(WriteReturnAsync, WriteReturn)
    \/ ch.wpc = "c_notify" /\ Pair(LAMBDA c : CloseNotify(c, "bulk"),
                                   LAMBDA c : CloseNotify(c, "bulk"))

ConsumerVariants ==
    \/ ch.rpc = "r_check" /\ Pair(ReadCheckAsync, LAMBDA c : ReadCheck(c, "bulk"))
    \/ ch.rpc = "r_closed" /\ Pair(ReadClosedAsync, LAMBDA c : ReadClosed(c, "bulk"))
    \/ ch.rpc = "r_seteos" /\ Pair(ReadSetEndOfStreamAsync, ReadSetEndOfStream)
    \/ ch.rpc = "r_wait" /\ Pair(ReadWaitAsync, LAMBDA c : ReadWait(c, "bulk"))
    \/ ch.rpc = "r_tick" /\ Pair(ReadTickAsync, LAMBDA c : c)
    \/ ch.rpc = "r_parked" /\ Pair(ReadTimeoutAsync, LAMBDA c : ReadTimeout(c, "bulk"))
    \/ ch.rpc = "rb_snap" /\ Pair(ReadBytesSnapshot, ReadBytesSnapshot)
    \/ ch.rpc = "rb_copy" /\ Pair(ReadBytesCopy, ReadBytesCopy)
    \/ ch.rpc = "rb_store" /\ Pair(ReadBytesStore, ReadBytesStore)
    \/ ch.rpc = "rb_notify" /\ Pair(ReadBytesNotifyAsync, ReadBytesNotify)
    \/ ch.rpc = "r_ret" /\ Pair(ReadReturnAsync, ReadReturn)

\* write(source) on ch, writeSync(source) on fresh
write_variants(n) ==
    /\ ch.wpc = "idle"
    /\ passed + n <= MaxBytes
    /\ Pair(LAMBDA c : WriteCallAsync(c, NextBytes(n)),
            LAMBDA c : WriteCall(c, NextBytes(n), "bulk"))
    /\ passed' = passed + n
    /\ writeAfterClose' = (writeAfterClose \/ closeCalled)
    /\ UNCHANGED <<impl, base, closeCalled, ff, made>>

\* read(target, off, lim) on ch, readSync(target, off, lim) on fresh
read_variants(off, lim) ==
    /\ ch.rpc = "idle"
    /\ off + lim <= TargetLen
    /\ Pair(LAMBDA c : ReadCallAsync(c, ZeroTarget, off, lim),
            LAMBDA c : ReadCall(c, ZeroTarget, off, lim))
    /\ UNCHANGED Ghosts

InitVariants == Init /\ impl = "bulk"

NextVariants ==
    \/ \E n \in 0 .. MaxChunk : write_variants(n)
    \/ close
    \/ \E off \in 0 .. (TargetLen - 1) : \E lim \in 0 .. TargetLen : read_variants(off, lim)
    \/ ProducerVariants /\ UNCHANGED Ghosts
    \/ ConsumerVariants /\ UNCHANGED Ghosts

SpecVariants == InitVariants /\ [][NextVariants]_vars

\* -------------------------------------------------- the constructor alone

construct ==
    /\ ~made.done
    /\ made' = Construct(made)
    /\ UNCHANGED <<impl, ch, fresh, passed, base, closeCalled, writeAfterClose, ff>>

InitConstruct ==
    /\ impl = "bulk"
    /\ ch = Fresh
    /\ fresh = Fresh
    /\ passed = 0
    /\ base = 0
    /\ closeCalled = FALSE
    /\ writeAfterClose = FALSE
    /\ ff = FFmpegNew
    /\ made \in { NotConstructed(kind, n) : kind \in {"size", "buffer"}, n \in 0 .. MaxSize }

NextConstruct == construct

SpecConstruct == InitConstruct /\ [][NextConstruct]_vars

\* ------------------------------------------------------ derived quantities

\* the bytes passed to write / writeSync since construction or reset()
Written == [k \in 1 .. (passed - base) |-> base + k]

IsPrefix(s, t) ==
    /\ Len(s) <= Len(t)
    /\ \A i \in 1 .. Len(s) : s[i] = t[i]

\* number of published unread bytes
Unread(c) == (c.writePosition - c.readPosition) % Capacity

\* the slots that hold published unread bytes
UnreadSlots(c) == { (c.readPosition + j) % Capacity : j \in 0 .. (Unread(c) - 1) }

\* both sides are between calls
Quiescent(c) == c.wpc = "idle" /\ c.rpc = "idle"

\* ------------------------------------------------------------------ claims

\* C1: with one producer and one consumer, the bytes delivered to the
\* consumer are at every instant a prefix of the bytes passed to write, and
\* once both sides are between calls with the buffer drained they are all
\* of them: nothing is lost, duplicated or reordered.
C1_Fifo ==
    /\ IsPrefix(ch.delivered, Written)
    /\ (Quiescent(ch) /\ ch.readPosition = ch.writePosition) => ch.delivered = Written

\* C1 witness: MaxBytes bytes in chunks went through an open, never reset
\* channel (more than its capacity, so the cursors wrapped).
C1_Witness ==
    /\ Quiescent(ch)
    /\ ~closeCalled
    /\ base = 0
    /\ Len(ch.delivered) = MaxBytes
    /\ ch.delivered = Written

\* C2: in sync.ts, when the producer writes and then calls close() while a
\* read is running, the end-of-stream bit is set only while readPosition =
\* writePosition, so a read returns -1 only after every byte written before
\* close() was delivered.
C2_EosOnlyWhenDrained ==
    (impl = "bulk" /\ ~writeAfterClose) =>
        /\ ch.state > 1 => ch.readPosition = ch.writePosition
        /\ (ch.rpc = "r_ret" /\ ch.rret = -1) => ch.delivered = Written

PendingIn(c) == IF c.wpc = "wb_store" THEN c.bytesToWrite ELSE 0

\* bytes a read attempt has copied out and not yet released
PendingOut(c) == IF c.rpc = "rb_store" THEN c.bytesToRead ELSE 0

\* bytes copied in by the producer minus bytes copied out by the consumer
InBuffer(c) == c.copiedIn - Len(c.delivered)

\* C4 as stated: in every reachable state the bytes copied in and not yet
\* copied out number between 0 and Capacity-1 and equal
\* (writePosition - readPosition) mod Capacity.
C4_Original ==
    /\ InBuffer(ch) \in 0 .. (Capacity - 1)
    /\ InBuffer(ch) = Unread(ch)

\* C4 amended: the bytes copied in and not yet copied out number between 0
\* and Capacity-1 in every state; they equal (writePosition - readPosition)
\* mod Capacity whenever neither side is between its copy and the store of
\* its cursor, and differ from it by exactly the bytes copied and not yet
\* published otherwise.  An attempt whose snapshot shows Capacity-1 unread
\* bytes copies nothing, and the write waits only on such a snapshot.
C4_Occupancy ==
    /\ InBuffer(ch) \in 0 .. (Capacity - 1)
    /\ InBuffer(ch) = Unread(ch) + PendingIn(ch) - PendingOut(ch)
    /\ ch.wpc \in {"wb_copy", "wb_store"} =>
          /\ (ch.currentWritePosition - ch.checkedReadPosition) % Capacity < Capacity - 1
          /\ ch.bytesToWrite >= 1
    /\ ch.wpc \in {"w_wait", "w_parked"} =>
          (ch.writePosition - ch.checkedReadPosition) % Capacity = Capacity - 1

\* C4 witness: the producer is parked on a full buffer (Capacity-1 unread
\* bytes) while the consumer holds a copy it has not yet released.
C4_Witness ==
    /\ ch.wpc = "w_parked"
    /\ Unread(ch) = Capacity - 1
    /\ ch.rpc = "rb_store"
    /\ PendingOut(ch) >= 1

\* C5: write / writeSync return only when every byte of the source has been
\* copied into the buffer, and return source.length; a full buffer makes the
\* call wait and retry, never return a short count.
C5_WriteReturnsLength ==
    ch.wpc = "w_ret" =>
        /\ ch.wret = Len(ch.source)
        /\ ch.totalBytesWritten = Len(ch.source)
        /\ ch.copiedIn = passed - base

\* C5 witness: a write of Capacity bytes, more than the buffer holds at
\* once, returns Capacity.
C5_Witness ==
    /\ ch.wpc = "w_ret"
    /\ Len(ch.source) = Capacity
    /\ ch.wret = Capacity

\* C6: read / readSync never return a count greater than limit and never
\* store outside target[offset .. offset+limit), also when the target is
\* longer than offset + limit.
C6_ReadWithinLimit ==
    /\ ch.rpc = "r_ret" => ch.rret <= ch.limit
    /\ \A i \in 0 .. (TargetLen - 1) :
          ch.target[i] # 0 => (ch.offset <= i /\ i < ch.offset + ch.limit)

\* C7: when close() is called while bytes are unread and no write follows
\* it, a read returns -1 only after all of them have been delivered.
C7_CloseThenDrain ==
    (closeCalled /\ ~writeAfterClose /\ ch.rpc = "r_ret" /\ ch.rret = -1)
        => ch.delivered = Written

\* a step that is the call of read / readSync
IsReadCall == ch.rpc = "idle" /\ ch'.rpc # "idle"

\* C8: once the end-of-stream bit is set it stays set until reset(), and
\* every read called meanwhile returns -1 at once, without a wait, leaving
\* readPosition, writePosition, the state word, the data and the target as
\* they were, whatever the buffer holds.
C8_EndOfStreamLatched ==
    [][ /\ (ch.state > 1 /\ ~(Quiescent(ch) /\ ch'.state = 0)) => ch'.state = ch.state
        /\ (IsReadCall /\ ch.state > 1) =>
              /\ ch'.rpc = "r_ret"
              /\ ch'.rret = -1
              /\ ch'.readPosition = ch.readPosition
              /\ ch'.writePosition = ch.writePosition
              /\ ch'.state = ch.state
              /\ ch'.data = ch.data
              /\ ch'.target = ZeroTarget
              /\ ch'.delivered = ch.delivered
        /\ (ch.rpc = "r_ret" /\ ch.rret = -1) => ch'.rpc \in {"r_ret", "idle"}
      ]_vars

\* C8 witness: a read is returning -1 while the buffer holds unread bytes.
C8_Witness ==
    /\ ch.rpc = "r_ret"
    /\ ch.rret = -1
    /\ ch.state = 3
    /\ Unread(ch) >= 1

\* what a caller can tell about a channel: everything but the bytes lying
\* in the data region
View(c) == [c EXCEPT !.data = ZeroData]

\* C9: after reset() with no call in flight the cursors and the state word
\* are 0, and from then on the channel returns and delivers what a newly
\* constructed channel returns and delivers under the same calls, whatever
\* its history left in the data region.
C9_ResetIsFresh == View(ch) = View(fresh)

\* C9 witness: after a reset() that left bytes in the data region the
\* channel has delivered bytes again, was closed and reached end-of-stream.
C9_Witness ==
    /\ base > 0
    /\ ch.data # fresh.data
    /\ Len(ch.delivered) >= 1
    /\ ch.state = 3

\* a reader that is about to wait, or waits, on an empty closed channel
SuspendedOnClosed(k) ==
    /\ ch.rpc \in {"r_wait", "r_parked"}
    /\ ch.state # 0
    /\ ch.readPosition = ch.writePosition
    /\ ch.bytesRead = k

\* C10: a read suspended on an empty channel returns once the producer has
\* called close(), with the count it had gathered (unless a later write
\* brought it more), whether close()'s notify came before or after the
\* wait began.
C10_CloseEndsWait ==
    \A k \in 0 .. TargetLen :
        SuspendedOnClosed(k) ~>
            (ch.rpc = "r_ret" /\ (ch.rret = k \/ writeAfterClose))

\* C10 witness: the reader is parked on the empty channel although close()
\* has already set the closed bit and issued its notify.
C10_Witness ==
    /\ ch.rpc = "r_parked"
    /\ ch.state = 1
    /\ ch.wpc = "idle"
    /\ ch.readPosition = ch.writePosition

\* a step that is the call of close()
IsCloseCall == ch.wpc = "idle" /\ ch'.wpc = "c_notify"

\* C11: close() sets only bit 0 of the state word and leaves readPosition,
\* writePosition and the data region as they were; a second call, or a call
\* after end-of-stream, leaves the state word as one call does: 1 before
\* end-of-stream, 3 after.
C11_CloseSetsOnlyClosedBit ==
    [][ /\ IsCloseCall =>
              /\ ch'.state % 2 = 1
              /\ ch'.state \div 2 = ch.state \div 2
              /\ ch.state \in {0, 1} => ch'.state = 1
              /\ ch.state = 3 => ch'.state = 3
              /\ ch'.readPosition = ch.readPosition
              /\ ch'.writePosition = ch.writePosition
              /\ ch'.data = ch.data
        /\ (ch.wpc = "c_notify" /\ ch'.wpc = "idle") =>
              /\ ch'.state = ch.state
              /\ ch'.readPosition = ch.readPosition
              /\ ch'.writePosition = ch.writePosition
              /\ ch'.data = ch.data
      ]_vars

\* C11 witness: close() was called on a channel already closed and at
\* end-of-stream, and the state word is 3.
C11_Witness ==
    /\ ch.wpc = "c_notify"
    /\ ch.atCall.state = 3
    /\ ch.state = 3

\* C12: readPosition and writePosition are in [0, capacity) in every
\* reachable state, and so is every value about to be stored in them, also
\* for a write that ends at the physical end of the array and for the
\* shrink-by-one step taken when the computed next writePosition is 0.
C12_CursorsInRange ==
    /\ ch.readPosition \in Slots
    /\ ch.writePosition \in Slots
    /\ ch.wpc = "wb_store" => ch.nextWritePosition \in Slots
    /\ ch.rpc = "rb_store" => ch.currentReadPosition + ch.bytesToRead <= Capacity

\* C12 witness: readPosition is 0 and the attempt reached the physical end
\* of the array, so the computed next writePosition was 0 and the attempt
\* was shrunk by one byte: it is about to store Capacity - 1.
C12_Witness ==
    /\ impl = "bulk"
    /\ ch.wpc = "wb_store"
    /\ ch.checkedReadPosition = 0
    /\ ch.currentWritePosition > 0
    /\ ch.nextWritePosition = Capacity - 1
    /\ Len(ch.source) - ch.totalBytesWritten > ch.bytesToWrite

\* C13: in both implementations no producer-side operation stores to
\* readPosition and no consumer-side operation stores to writePosition:
\* readPosition changes only in a step of the consumer, its store of the
\* cursor, and writePosition only in a step of the producer (reset(), called
\* with no operation in flight, aside), also after close().
C13_CursorOwnership ==
    [][ \/ (Quiescent(ch) /\ ch'.readPosition = 0 /\ ch'.writePosition = 0 /\ ch'.state = 0)
        \/ /\ ch'.readPosition # ch.readPosition =>
                 (ch.rpc = "rb_store" /\ ch'.rpc = "rb_notify" /\ ch'.wpc = ch.wpc)
           /\ ch'.writePosition # ch.writePosition =>
                 (ch.wpc \in {"wb_store", "w_reset1"} /\ ch'.wpc # ch.wpc /\ ch'.rpc = ch.rpc)
      ]_vars

\* without a worker nothing is pending and the object is not loaded, and a
\* request-based call made in that state was rejected with ERROR_NOT_LOADED
NothingPending ==
    /\ ff.op = "terminate" => ~ff.worker
    /\ ~ff.worker =>
          /\ ~ff.loaded
          /\ ff.resolves = {}
          /\ ff.rejects = {}
          /\ \A id \in MessageIDs : ff.promise[id] # "pending"
    /\ (~ff.worker /\ ff.op \in RequestTypes) => ff.result = "ERROR_NOT_LOADED"

\* a promise pending when terminate() is called is rejected with
\* ERROR_TERMINATED, and a call rejected for want of a worker sends nothing
TerminateRejects ==
    /\ \A id \in MessageIDs :
          (ff.promise[id] = "pending" /\ ff'.op = "terminate")
              => ff'.promise[id] = "ERROR_TERMINATED"
    /\ ff'.result = "ERROR_NOT_LOADED" =>
          (ff'.messageID = ff.messageID /\ ff'.promise = ff.promise)

\* C14: terminate() rejects every pending request promise with
\* ERROR_TERMINATED and leaves no pending entry; afterwards loaded is false
\* and every request-based API call is rejected with ERROR_NOT_LOADED until
\* load() is called again.
C14_TerminateRejectsPending ==
    []NothingPending /\ [][TerminateRejects]_vars

\* C14 witness: a request was rejected with ERROR_NOT_LOADED after a
\* terminate() that rejected a pending promise of a loaded object, another
\* promise having been aborted before.
C14_Witness ==
    /\ ff.op \in RequestTypes
    /\ ff.result = "ERROR_NOT_LOADED"
    /\ \E id \in MessageIDs : ff.promise[id] = "ERROR_TERMINATED"
    /\ \E id \in MessageIDs : ff.promise[id] = "AbortError"
    /\ \E id \in MessageIDs : ff.promise[id] = "resolved"

\* C15: constructing from a capacity C >= 2 succeeds and yields a region of
\* C + 12 bytes with a data region of length C that begins behind the three
\* control words.
C15_ConstructsAnyCapacity ==
    (made.done /\ made.kind = "size" /\ made.n >= 2) =>
        /\ made.thrown = "none"
        /\ made.byteLength = made.n + 12
        /\ made.dataLength = made.n
        /\ made.dataOffset >= 3 * BytesPerElement

\* a read / readSync is in flight
Reading(c) == c.rpc \notin {"idle", "r_ret"}

\* the producer has passed to write at least the bytes the read in flight
\* still asks for
Supplied(c) == (passed - base) - (Len(c.delivered) - c.bytesRead) >= c.limit

\* C16: with both sides scheduled fairly, a write on an open channel, of any
\* length, returns provided the consumer keeps reading, and a read returns
\* provided the producer passes at least limit bytes; neither waits forever.
C16_BothSidesProgress ==
    /\ (Writing(ch) /\ ch.state = 0) ~> (ch.wpc = "w_ret")
    /\ (Reading(ch) /\ Supplied(ch)) ~> (ch.rpc = "r_ret")

\* C16 witness: a write of Capacity bytes, more than the channel holds at
\* once, is parked on the full open channel while no read is in flight.
C16_Witness ==
    /\ ch.wpc = "w_parked"
    /\ Len(ch.source) = Capacity
    /\ Unread(ch) = Capacity - 1
    /\ ch.state = 0
    /\ ch.rpc = "idle"

\* C17: read / readSync return a count smaller than limit only after they
\* found the buffer empty, saw the closed bit and set the end-of-stream bit;
\* an empty buffer alone never makes them return.
C17_ShortReadOnlyAtEnd ==
    (ch.rpc = "r_ret" /\ ch.rret >= 0 /\ ch.rret < ch.limit) =>
        /\ ch.state = 3
        /\ ch.checkedWritePosition = ch.readPosition

\* C17 witness: a read for two bytes returns one: it waited on the empty
\* buffer for the second and then found the channel closed.
C17_Witness ==
    /\ ch.rpc = "r_ret"
    /\ ch.limit = 2
    /\ ch.rret = 1
    /\ ch.state = 3

\* the bytes delivered since construction or reset(), as a set
Delivered(c) == { c.delivered[i] : i \in 1 .. Len(c.delivered) }

\* the slots an attempt is about to copy out hold the next undelivered bytes
\* of the stream, and the slots an attempt is about to copy into hold no byte
\* that is still to be copied out
CopiesAreSafe ==
    /\ ch.rpc = "rb_copy" =>
          \A k \in 0 .. (ch.bytesToRead - 1) :
              ch.data[ch.currentReadPosition + k] = base + Len(ch.delivered) + k + 1
    /\ ch.wpc = "wb_copy" =>
          \A k \in 0 .. (ch.bytesToWrite - 1) :
              LET b == ch.data[ch.currentWritePosition + k]
              IN  b <= base \/ b \in Delivered(ch)

\* a step that is reset(): no call is in flight and the words are 0 after it
IsReset == Quiescent(ch) /\ ch'.readPosition = 0 /\ ch'.writePosition = 0 /\ ch'.state = 0

\* the data region changes only in the copy of a write attempt, before the
\* store of writePosition, which comes before the notify; the target is
\* filled only in the copy of a read attempt, before the store of readPosition
CopyThenPublish ==
    \/ IsReset
    \/ /\ ch'.data # ch.data =>
             (ch.wpc = "wb_copy" /\ ch'.wpc = "wb_store" /\ ch'.writePosition = ch.writePosition)
       /\ ch'.writePosition # ch.writePosition =>
             (ch.wpc = "wb_store" /\ ch'.wpc = "wb_notify" /\ ch'.data = ch.data)
       /\ ch'.delivered # ch.delivered =>
             (ch.rpc = "rb_copy" /\ ch'.rpc = "rb_store" /\ ch'.readPosition = ch.readPosition)
       /\ ch'.readPosition # ch.readPosition =>
             (ch.rpc = "rb_store" /\ ch'.rpc = "rb_notify" /\ ch'.delivered = ch.delivered)

StateWordValid == ch.state \in {0, 1, 3}

\* no step but reset() clears a bit of the state word
BitsOnlySet ==
    \/ IsReset
    \/ /\ ch'.state % 2 >= ch.state % 2
       /\ ch'.state \div 2 >= ch.state \div 2

\* C19: with reset() called only while no read or write is in flight, the
\* state word only takes the values 0, 1 and 3: the end-of-stream bit is never
\* set while the closed bit is clear, and no bit is cleared except by reset().
C19_StateWordValues ==
    []StateWordValid /\ [][BitsOnlySet]_vars

\* C19 witness: the state word is 3 for the second time: it went 0, 1, 3,
\* back to 0 by reset(), and 1, 3 again.
C19_Witness ==
    /\ ch.state = 3
    /\ base > 0
    /\ Len(ch.delivered) >= 1

\* the free space the write in flight found at its call, the consumer having
\* taken no step since: capacity - 1 - unread bytes
FreeAtCall(c) == Capacity - 1 - ((c.atCall.writePosition - c.readPosition) % Capacity)

\* the write in flight was called with no more bytes than were free
Fits(c) == Len(c.source) <= FreeAtCall(c)

\* a write that fits never waits, and returns its length with writePosition
\* advanced by it modulo the capacity
FittingWriteNeverWaits ==
    /\ (ch.wpc \in {"w_wait", "w_parked"}) => ~Fits(ch)
    /\ (ch.wpc = "w_ret" /\ Fits(ch)) =>
          /\ ch.wret = Len(ch.source)
          /\ ch.writePosition = (ch.atCall.writePosition + Len(ch.source)) % Capacity

\* C20: a write of no more bytes than are free (capacity - 1 - unread)
\* completes without suspending and without a step of the consumer, also
\* when the bytes wrap around the end of the array, and leaves
\* writePosition = (old writePosition + length) mod capacity.
C20_FittingWriteCompletes ==
    /\ []FittingWriteNeverWaits
    /\ (Writing(ch) /\ Fits(ch)) ~> (ch.wpc = "w_ret")

\* C20 witness: a write of two bytes called with writePosition at the last
\* slot of the array has returned 2 without a step of the consumer, and
\* writePosition is 1.
C20_Witness ==
    /\ ch.wpc = "w_ret"
    /\ ch.wret = 2
    /\ ch.atCall.writePosition = Capacity - 1
    /\ ch.writePosition = 1
    /\ Fits(ch)

\* C21: each write attempt copies one segment that stays inside the array
\* (snapshot writePosition + bytes copied <= capacity) and so does each read
\* attempt (snapshot readPosition + bytes copied <= capacity); the part of a
\* write beyond the end of the array is left to a later attempt.
C21_OneContiguousSegment ==
    /\ ch.wpc \in {"wb_copy", "wb_store"} =>
          /\ ch.currentWritePosition = ch.writePosition
          /\ ch.currentWritePosition + ch.bytesToWrite <= Capacity
          /\ ch.bytesToWrite <= Len(ch.source) - ch.totalBytesWritten
    /\ ch.rpc \in {"rb_copy", "rb_store"} =>
          /\ ch.currentReadPosition = ch.readPosition
          /\ ch.currentReadPosition + ch.bytesToRead <= Capacity

\* C21 witness: the earlier attempts of a sync.ts write ended at the physical
\* end of the array, and a later attempt of the same write is about to copy
\* the rest to slot 0.
C21_Witness ==
    /\ impl = "bulk"
    /\ ch.wpc = "wb_copy"
    /\ ch.currentWritePosition = 0
    /\ ch.totalBytesWritten >= 1
    /\ ch.atCall.writePosition + ch.totalBytesWritten = Capacity

\* C22: write and writeSync, read and readSync, given the same calls and
\* observing the same values, do the same loads and stores on the shared
\* region and return the same values; they differ only in the wait.
C22_VariantsAgree == Resumed(ch) = fresh

\* C22 witness: write found the channel full and its wait found readPosition
\* moved, so that its await is about to resume where writeSync has gone on
\* already, while read and readSync are returning the same count.
C22_Witness ==
    /\ ch.wpc = "w_tick"
    /\ fresh.wpc = "wb_snap"
    /\ ch.rpc = "r_ret"
    /\ ch.rret >= 1
    /\ fresh.rret = ch.rret

\* C23: in part_000 a write issued after close, full drain and latched
\* end-of-stream leaves the #reset with all three control words zero, and the
\* reads that follow deliver exactly the bytes written since, in order, and
\* return -1 only after another close.
C23_ReuseDelivers ==
    /\ [](base > 0 =>
            /\ IsPrefix(ch.delivered, Written)
            /\ (Quiescent(ch) /\ ch.readPosition = ch.writePosition) => ch.delivered = Written
            /\ (ch.rpc = "r_ret" /\ ch.rret = -1) => closeCalled)
    /\ [][ch.wpc = "w_reset2" =>
            (ch'.readPosition = 0 /\ ch'.writePosition = 0 /\ ch'.state = 0)]_vars

\* C23 witness: the channel was closed, drained to end-of-stream and written
\* again with two bytes or more, which have been delivered with no close since.
C23_Witness ==
    /\ base > 0
    /\ ~closeCalled
    /\ Quiescent(ch)
    /\ Len(ch.delivered) >= 2
    /\ ch.delivered = Written
    /\ ch.state = 0

\* C24: a write attempt whose snapshot shows the buffer not full copies at
\* least one byte, a read attempt on a non-empty buffer with target space
\* left copies at least one byte, and a write or read is at its wait only
\* when its snapshot showed the buffer full or empty.
C24_AttemptsMakeProgress ==
    /\ ch.wpc \in {"wb_copy", "wb_store"} => ch.bytesToWrite >= 1
    /\ ch.rpc \in {"rb_copy", "rb_store"} => ch.bytesToRead >= 1
    /\ ch.wpc \in {"w_wait", "w_parked"} =>
          /\ IsFull(ch.writePosition, ch.checkedReadPosition)
          /\ ch.totalBytesWritten < Len(ch.source)
    /\ ch.rpc \in {"r_wait", "r_parked"} =>
          /\ ch.readPosition = ch.checkedWritePosition
          /\ ch.bytesRead < ch.limit

\* C24 witness: an attempt of #writeBytes in the middle of the data region
\* took the shrink-by-one step and still copies a byte, while an attempt of
\* #readBytes copies a byte too.
C24_Witness ==
    /\ impl = "bulk"
    /\ ch.wpc = "wb_copy"
    /\ ch.currentWritePosition > 0
    /\ ch.bytesToWrite >= 1
    /\ ch.bytesToWrite < Min(Len(ch.source) - ch.totalBytesWritten,
                             ContiguousSpace(ch.currentWritePosition, ch.readPosition))
    /\ ch.rpc = "rb_copy"
    /\ ch.bytesToRead >= 1

\* bytes whose slots the consumer has released by a store of readPosition
Released(c) == Len(c.delivered) - PendingOut(c)

\* bytes the producer has published by a store of writePosition
Published(c) == c.copiedIn - PendingIn(c)

\* C25: while a producer is suspended on a full buffer readPosition equals
\* its snapshot only if no byte has been released since, while a consumer is
\* suspended on an empty buffer writePosition equals its snapshot only if no
\* byte has been published since, and a side stays parked on a cursor that
\* has moved only until the notify that follows the store of that cursor.
C25_NoABA ==
    /\ (ch.wpc \in {"w_wait", "w_parked"} /\ ch.readPosition = ch.checkedReadPosition) =>
          Published(ch) - Released(ch) = Capacity - 1
    /\ (ch.rpc \in {"r_wait", "r_parked"} /\ ch.writePosition = ch.checkedWritePosition) =>
          Published(ch) = Released(ch)
    /\ (ch.wpc = "w_parked" /\ ch.readPosition # ch.checkedReadPosition) =>
          ch.rpc = "rb_notify"
    /\ (ch.rpc = "r_parked" /\ ch.writePosition # ch.checkedWritePosition) =>
          ch.wpc = "wb_notify"

\* C25 witness: the consumer has released every byte and is parked on the
\* empty buffer while the producer, whose snapshot showed the buffer full,
\* is about to wait on a readPosition that has moved since.
C25_Witness ==
    /\ ch.wpc = "w_wait"
    /\ ch.readPosition # ch.checkedReadPosition
    /\ ch.rpc = "r_parked"
    /\ ch.writePosition = ch.checkedWritePosition
    /\ Len(ch.delivered) >= Capacity - 1

\* C26: when the worker posts the reply to an exec request, the output
\* stream registered in the worker has its closed bit set.
C26_ClosedBeforeExecReply ==
    [][(ff.executing # {} /\ ff'.executing = {} /\ "ostream" \in ff.outputStreams)
          => ch'.state # 0]_vars

\* the messages of a queue that carry the id
WithID(q, id) == { i \in 1 .. Len(q) : q[i].id = id }

\* the places a request of this id is at: waiting for the worker, in a
\* load() of the worker, or answered and waiting for the main side
InFlight(f, id) ==
    Cardinality(WithID(f.inbox, id)) + Cardinality(WithID(f.outbox, id))
        + (IF id \in f.loading THEN 1 ELSE 0)

\* the worker takes the message m and answers it, or begins its load()
WorkerAnswers(f, g) ==
    LET m == Head(f.inbox)
    IN  IF m.type = "LOAD"
        THEN g.outbox = f.outbox /\ g.loading = f.loading \cup {m.id}
        ELSE /\ Len(g.outbox) = Len(f.outbox) + 1
             /\ g.outbox[Len(g.outbox)].id = m.id
             /\ g.outbox[Len(g.outbox)].type \in {m.type, "ERROR"}
             /\ (~f.ffmpeg \/ m.type \notin SwitchTypes) =>
                    g.outbox[Len(g.outbox)].type = "ERROR"
             /\ g.loading = f.loading

\* the main side takes the reply m: the promise of m.id and no other is
\* settled, by the reply's type, and the callbacks of m.id are removed
MainSettles(f, g) ==
    LET m == Head(f.outbox)
    IN  /\ \A id \in MessageIDs \ {m.id} : g.promise[id] = f.promise[id]
        /\ f.promise[m.id] = "pending" =>
              g.promise[m.id] = (IF m.type = "ERROR" THEN "ERROR" ELSE "resolved")
        /\ g.resolves = f.resolves \ {m.id}
        /\ g.rejects = f.rejects \ {m.id}

\* C27: every request the worker takes gets one reply with its id, of its
\* own type or of type ERROR (ERROR when the core is not loaded or the type
\* is unknown); a request with callbacks registered is at exactly one place
\* and one without at none; the main side settles the promise of the reply's
\* id only and removes its callbacks.
C27_OneReplyPerRequest ==
    /\ [](\A id \in MessageIDs :
            /\ InFlight(ff, id) = (IF id \in ff.resolves THEN 1 ELSE 0)
            /\ id \in ff.resolves <=> id \in ff.rejects)
    /\ [][ /\ (ff.worker /\ ff'.worker /\ ff.inbox # << >> /\ ff'.inbox = Tail(ff.inbox))
               => WorkerAnswers(ff, ff')
           /\ (ff.worker /\ ff'.worker /\ ff.outbox # << >> /\ ff'.outbox = Tail(ff.outbox))
               => MainSettles(ff, ff')
           /\ (ff.worker /\ ff'.worker /\ ff'.loading # ff.loading /\ ff'.inbox = ff.inbox) =>
                 /\ Len(ff'.outbox) = Len(ff.outbox) + 1
                 /\ ff.loading = ff'.loading \cup {ff'.outbox[Len(ff'.outbox)].id}
                 /\ ff'.outbox[Len(ff'.outbox)].type \in {"LOAD", "ERROR"}
         ]_vars

\* C27 witness: with the core loaded a request of a type the switch does not
\* know was answered with ERROR, after one request was resolved and one was
\* rejected, and nothing is registered any more.
C27_Witness ==
    /\ ff.ffmpeg
    /\ ff.op = "UNKNOWN"
    /\ ff.outbox # << >>
    /\ Head(ff.outbox).type = "ERROR"
    /\ ff.resolves = {Head(ff.outbox).id}
    /\ \E id \in MessageIDs : ff.promise[id] = "resolved"

\* C28: when the input device's read has returned, its value is 0 if
\* readSync returned -1 and else the count readSync returned, never
\* negative, and the caller's buffer holds exactly the bytes readSync
\* delivered from the given offset on and is untouched elsewhere.
C28_DeviceRead ==
    LET d == ff.device
    IN  d.at = "idle" =>
          /\ d.ret >= 0
          /\ d.bytesRead \in -1 .. d.length
          /\ d.ret = (IF d.bytesRead = -1 THEN 0 ELSE d.bytesRead)
          /\ \A i \in DOMAIN d.buffer :
                d.buffer[i] = IF d.offset <= i /\ i < d.offset + d.ret
                              THEN ch.delivered[Len(ch.delivered) - d.ret + (i - d.offset) + 1]
                              ELSE 0

\* C28 witness: a read of the device at offset 1 returned 0 for the -1 of
\* readSync, after reads that brought bytes.
C28_Witness ==
    /\ ff.device.at = "idle"
    /\ ff.device.bytesRead = -1
    /\ ff.device.ret = 0
    /\ ff.device.offset = 1
    /\ ff.device.length >= 1
    /\ Len(ch.delivered) >= 2

=============================================================================
